---- MODULE Spec2Model ----
(***************************************************************************)
(* Carely: the entity store (src/app/database), its API routes             *)
(* (src/app/api/routes.py), the sample-data loader and the reminder        *)
(* scheduler / alert generator that run on top of the store.               *)
(*                                                                         *)
(* Time is a discrete clock `now`; one day is TicksPerDay ticks.  A        *)
(* datetime is the number of ticks since the start of day 0, a time of day *)
(* is a tick offset in 0..TicksPerDay-1, and Python's None is the empty    *)
(* sequence (an Optional[datetime] is <<>> or <<t>>).                       *)
(***************************************************************************)
EXTENDS Integers, Sequences, FiniteSets, TLC

VARIABLES
    now,            \* datetime.now()
    users,          \* table user: the set of ids of its rows
    medications,    \* table medication: sequence of rows, row i has id i
    logs,           \* table medicationlog: sequence of rows, row i has id i
    alerts,         \* table caregiveralert: sequence of rows, row i has id i
    sched_pc,       \* position of the scheduler thread inside its tick
    affected,       \* users whose doses the current tick marked missed
    response,       \* what the last query handler returned to its caller
    reminders,      \* table reminder: sequence of rows, row i has id i
    conversations,  \* table conversation: sequence of rows, row i has id i
    notification,   \* what the last call of the notification sender returned
    server          \* the Streamlit server process: its resource cache and threads

vars == <<now, users, medications, logs, alerts, sched_pc, affected, response,
          reminders, conversations, notification, server>>

(***************************************************************************)
(* Bounds of the model.                                                    *)
(***************************************************************************)
MaxTime == 2        \* the clock stops advancing here
TicksPerDay == 2    \* clock ticks per calendar day
GracePeriod == 1    \* ticks a pending dose may be overdue before it is missed
MaxUsers == 2       \* rows of table user; ids 1..MaxUsers+1 are asked for
MaxMeds == 1        \* rows of table medication
MaxLogs == 2        \* rows of table medicationlog under Spec
MaxAlerts == 2      \* rows of table caregiveralert
MaxDays == 2        \* largest window_days asked of the adherence query
MaxTaken == 7       \* taken rows in an initial log set of SpecAdherence
MaxMissed == 3      \* missed rows in an initial log set of SpecAdherence
MaxOther == 1       \* pending / skipped rows in an initial log set
MaxReminders == 2   \* rows of table reminder
MaxConvs == 4       \* conversations of a user in an initial store of SpecMood
MaxConcerns == 1    \* length of the concerns list handed to the notifier
MaxMessages == 2    \* conversations of a user in an initial store of SpecEmergency
MaxHistory == 2     \* conversations of a user in a varied initial store of SpecSummary
MaxBulk == 51       \* conversations of one day in a bulk initial store of SpecSummary
MaxOld == 1         \* conversations of the day before in a bulk initial store
MaxSaved == 2       \* rows of table conversation under SpecConversations
MaxBoots == 1       \* restarts of the server process
MaxTrend == 6       \* conversations of a user in an initial store of SpecTrend

None == <<>>
Some(t) == <<t>>

Statuses == {"pending", "taken", "missed", "skipped"}
Severities == {"low", "medium", "high"}
AlertTypes == {"medication_missed", "mood_concern", "emergency"}

(***************************************************************************)
(* MedicationLogCRUD                                                       *)
(***************************************************************************)
\* One medicationlog row, as the MedicationLog constructor fills it.
MedicationLogRow(id, user_id, medication_id, scheduled_time, taken_time, status) ==
    [id |-> id, user_id |-> user_id, medication_id |-> medication_id,
     scheduled_time |-> scheduled_time, taken_time |-> taken_time,
     status |-> status]

\* A log_medication_taken that rewrites the medication's latest row when one
\* exists instead of inserting.
LogMedicationTaken_Upsert(ls, user_id, medication_id, scheduled_time, taken_time, status, t) ==
    LET same == {i \in 1..Len(ls) : ls[i].medication_id = medication_id}
        last == CHOOSE i \in same : \A j \in same : j <= i
    IN  IF same # {}
        THEN [ls EXCEPT ![last].status = status,
                        ![last].taken_time = IF taken_time # None THEN taken_time
                                             ELSE Some(t)]
        ELSE Append(ls, MedicationLogRow(Len(ls) + 1, user_id, medication_id,
                                         scheduled_time,
                                         IF taken_time # None THEN taken_time ELSE Some(t),
                                         status))

\* log_medication_taken: always INSERTs a new row; a missing taken_time is
\* replaced by datetime.now() whatever the status is.
LogMedicationTaken(ls, user_id, medication_id, scheduled_time, taken_time, status, t) ==
    Append(ls, MedicationLogRow(Len(ls) + 1, user_id, medication_id, scheduled_time,
                                IF taken_time # None THEN taken_time ELSE Some(t),
                                status))

\* The rows the adherence query selects: user_id matches and
\* scheduled_time >= now - timedelta(days); there is no upper limit.
AdherenceLogs(ls, user_id, days, t) ==
    LET cutoff_date == t - days * TicksPerDay
    IN  SelectSeq(ls, LAMBDA l : l.user_id = user_id /\ l.scheduled_time >= cutoff_date)

\* An adherence rate that leaves out the factor 100.
AdherenceRate_Fraction(taken, total) ==
    IF total > 0 THEN <<taken, total>> ELSE <<0, 1>>

\* taken / total * 100, kept exact as the fraction <<numerator, denominator>>;
\* the integer 0 of the else branch is <<0, 1>>.
AdherenceRate(taken, total) ==
    IF total > 0 THEN <<taken * 100, total>> ELSE <<0, 1>>

\* A get_medication_adherence whose total is taken + missed.
GetMedicationAdherence_Decided(ls, user_id, days, t) ==
    LET sel    == AdherenceLogs(ls, user_id, days, t)
        taken  == Len(SelectSeq(sel, LAMBDA l : l.status = "taken"))
        missed == Len(SelectSeq(sel, LAMBDA l : l.status = "missed"))
    IN  [total |-> taken + missed, taken |-> taken, missed |-> missed,
         adherence_rate |-> IF taken + missed > 0
                            THEN <<taken * 100, taken + missed>> ELSE <<0, 1>>,
         logs |-> sel]

\* A get_medication_adherence that counts every row that is not missed as
\* taken.
GetMedicationAdherence_NotMissed(ls, user_id, days, t) ==
    LET sel    == AdherenceLogs(ls, user_id, days, t)
        total  == Len(sel)
        taken  == Len(SelectSeq(sel, LAMBDA l : l.status # "missed"))
        missed == Len(SelectSeq(sel, LAMBDA l : l.status = "missed"))
    IN  [total |-> total, taken |-> taken, missed |-> missed,
         adherence_rate |-> AdherenceRate(taken, total), logs |-> sel]

\* get_medication_adherence: no check of user_id or of days.
GetMedicationAdherence(ls, user_id, days, t) ==
    LET sel    == AdherenceLogs(ls, user_id, days, t)
        total  == Len(sel)
        taken  == Len(SelectSeq(sel, LAMBDA l : l.status = "taken"))
        missed == Len(SelectSeq(sel, LAMBDA l : l.status = "missed"))
    IN  [total |-> total, taken |-> taken, missed |-> missed,
         adherence_rate |-> AdherenceRate(taken, total), logs |-> sel]

\* Comparisons of a rate <<n, d>> (d > 0) with a whole number of percent.
RateBelow(r, k) == r[1] < k * r[2]
RateIs(r, k) == r[1] = k * r[2]

(***************************************************************************)
(* CaregiverAlertCRUD                                                      *)
(***************************************************************************)
\* A create_alert that leaves severity to its column default.
CreateAlert_DefaultSeverity(as, user_id, alert_type, severity, t) ==
    Append(as, [id |-> Len(as) + 1, user_id |-> user_id, alert_type |-> alert_type,
                severity |-> "medium", resolved |-> FALSE, resolved_at |-> None,
                created_at |-> t])

\* create_alert: always INSERTs; title and description carry no behaviour
\* and are left out of the row.
CreateAlert(as, user_id, alert_type, severity, t) ==
    Append(as, [id |-> Len(as) + 1, user_id |-> user_id, alert_type |-> alert_type,
                severity |-> severity, resolved |-> FALSE, resolved_at |-> None,
                created_at |-> t])

\* A get_unresolved_alerts without the filter on user_id.
GetUnresolvedAlerts_AllUsers(as, user_id) ==
    {as[i] : i \in {j \in 1..Len(as) : as[j].resolved = FALSE}}

\* get_unresolved_alerts: `if user_id:` filters by user unless user_id is
\* None or 0.  The rows are returned as a set: the order (created_at desc)
\* is not modelled.
GetUnresolvedAlerts(as, user_id) ==
    {as[i] : i \in {j \in 1..Len(as) :
                      /\ as[j].resolved = FALSE
                      /\ (user_id # 0 => as[j].user_id = user_id)}}

\* resolve_alert: session.get, then an unconditional write of resolved and
\* resolved_at; a missing id changes nothing and returns None.
ResolveAlert(as, alert_id, t) ==
    IF alert_id \in 1..Len(as)
    THEN [as EXCEPT ![alert_id].resolved = TRUE, ![alert_id].resolved_at = Some(t)]
    ELSE as

(***************************************************************************)
(* ReminderCRUD                                                            *)
(***************************************************************************)
\* Python's truth value of an Optional[int] argument: None and 0 are false.
Truthy(x) == x # None /\ x[1] # 0

\* create_reminder: INSERTs a row with the column defaults completed = False
\* and completed_at = None; reminder_type, title, message and medication_id
\* carry no behaviour and are left out of the row.
CreateReminder(rs, user_id, scheduled_time) ==
    Append(rs, [id |-> Len(rs) + 1, user_id |-> user_id,
                scheduled_time |-> scheduled_time,
                completed |-> FALSE, completed_at |-> None])

\* get_pending_reminders: completed == False and scheduled_time <= now, and,
\* `if user_id:`, the rows of that user; user_id is None or Some(id).  The
\* rows are returned as the set of their ids.
GetPendingReminders(rs, user_id, t) ==
    {i \in 1..Len(rs) :
        /\ rs[i].completed = FALSE
        /\ rs[i].scheduled_time <= t
        /\ (Truthy(user_id) => rs[i].user_id = user_id[1])}

\* A complete_reminder that sets the flag and leaves completed_at alone.
CompleteReminder_FlagOnly(rs, reminder_id, t) ==
    IF reminder_id \in 1..Len(rs)
    THEN [rs EXCEPT ![reminder_id].completed = TRUE]
    ELSE rs

\* A complete_reminder that switches the flag: a second completion reopens
\* the reminder.
CompleteReminder_Toggle(rs, reminder_id, t) ==
    IF reminder_id \in 1..Len(rs)
    THEN [rs EXCEPT ![reminder_id].completed = ~@,
                    ![reminder_id].completed_at = Some(t)]
    ELSE rs

\* complete_reminder: session.get, then an unconditional write of completed
\* and completed_at; a missing id changes nothing and returns None.
CompleteReminder(rs, reminder_id, t) ==
    IF reminder_id \in 1..Len(rs)
    THEN [rs EXCEPT ![reminder_id].completed = TRUE,
                    ![reminder_id].completed_at = Some(t)]
    ELSE rs

(***************************************************************************)
(* ConversationCRUD.  A sentiment score is a whole number of tenths        *)
(* (-10..10 for -1.0..1.0).                                                *)
(***************************************************************************)
\* A save_conversation that keeps one row per user: it rewrites the user's
\* latest row when there is one.
SaveConversation_Rewrite(cs, user_id, message, sentiment_score, conversation_type, t) ==
    IF \E i \in 1..Len(cs) : cs[i].user_id = user_id
    THEN LET last == CHOOSE i \in 1..Len(cs) :
                        /\ cs[i].user_id = user_id
                        /\ \A j \in 1..Len(cs) : cs[j].user_id = user_id => j <= i
         IN  [cs EXCEPT ![last] = [id |-> last, user_id |-> user_id, message |-> message,
                                   sentiment_score |-> sentiment_score,
                                   conversation_type |-> conversation_type,
                                   timestamp |-> t]]
    ELSE Append(cs, [id |-> Len(cs) + 1, user_id |-> user_id, message |-> message,
                     sentiment_score |-> sentiment_score,
                     conversation_type |-> conversation_type, timestamp |-> t])

\* save_conversation: INSERTs a row; timestamp defaults to datetime.now().
\* The response text and sentiment_label carry no behaviour here and are
\* left out of the row.
SaveConversation(cs, user_id, message, sentiment_score, conversation_type, t) ==
    Append(cs, [id |-> Len(cs) + 1, user_id |-> user_id, message |-> message,
                sentiment_score |-> sentiment_score,
                conversation_type |-> conversation_type, timestamp |-> t])

\* ORDER BY timestamp DESC over the rows with index in S; rows of equal
\* timestamp come out in id order.  Row i takes the place after the rows
\* that come before it.
OrderByTimestampDesc(cs, S) ==
    LET before(i) == {j \in S : \/ cs[j].timestamp > cs[i].timestamp
                                \/ (cs[j].timestamp = cs[i].timestamp /\ j < i)}
        place == [i \in S |-> Cardinality(before(i)) + 1]
    IN  [k \in 1..Cardinality(S) |-> cs[CHOOSE i \in S : place[i] = k]]

\* A get_user_conversations that orders by id, oldest first.
GetUserConversations_Oldest(cs, user_id, limit) ==
    LET all == SelectSeq(cs, LAMBDA c : c.user_id = user_id)
    IN  SubSeq(all, 1, IF limit < Len(all) THEN limit ELSE Len(all))

\* get_user_conversations: the user's rows, newest first, at most `limit`.
GetUserConversations(cs, user_id, limit) ==
    LET all == OrderByTimestampDesc(cs, {i \in 1..Len(cs) : cs[i].user_id = user_id})
    IN  SubSeq(all, 1, IF limit < Len(all) THEN limit ELSE Len(all))

\* get_recent_sentiment_data: the user's rows with a score and a timestamp
\* not before now - days, newest first.
GetRecentSentimentData(cs, user_id, days, t) ==
    OrderByTimestampDesc(cs, {i \in 1..Len(cs) :
                                 /\ cs[i].user_id = user_id
                                 /\ cs[i].timestamp >= t - days * TicksPerDay
                                 /\ cs[i].sentiment_score # None})

(***************************************************************************)
(* TelegramNotifier.  A str argument is None or Some(text); the list       *)
(* argument concerns is None or Some(sequence).                            *)
(***************************************************************************)
\* What a call gave back: the dict it returned, or the exception it raised.
Returned(success, error) == [raised |-> FALSE, success |-> success, error |-> error]
Raised(exception) == [raised |-> TRUE, exception |-> exception]

\* Python's truth value of an Optional[str]: None and "" are false.
TruthyStr(x) == x # None /\ x[1] # ""

\* What requests.post(...) and response.json() do: the API answers ok, it
\* answers ok = false with a description, its JSON is not an object, the
\* connection fails, or the body is not JSON.
NetOutcomes == {"ok", "not_ok", "not_a_dict", "connection_error", "invalid_json"}

\* send_message: the two early returns, then the try block, whose
\* `except Exception` turns every failure into a result.
SendMessage(bot_token, chat_id, net) ==
    IF ~TruthyStr(bot_token) THEN Returned(FALSE, "Telegram bot token not configured")
    ELSE IF ~TruthyStr(chat_id) THEN Returned(FALSE, "Chat ID not provided")
    ELSE CASE net = "ok" -> Returned(TRUE, "")
           [] net = "not_ok" -> Returned(FALSE, "description")
           [] net = "not_a_dict" -> Returned(FALSE, "AttributeError")
           [] net = "connection_error" -> Returned(FALSE, "ConnectionError")
           [] net = "invalid_json" -> Returned(FALSE, "JSONDecodeError")

\* send_emergency_alert: the text is built before send_message is called,
\* outside any try block: iterating concerns = None raises TypeError and
\* severity.upper() on None raises AttributeError.  A severity that is no key
\* of severity_emoji gets the default emoji.
SendEmergencyAlert(bot_token, chat_id, concerns, severity, net) ==
    IF concerns = None THEN Raised("TypeError")
    ELSE IF severity = None THEN Raised("AttributeError")
    ELSE SendMessage(bot_token, chat_id, net)

(***************************************************************************)
(* ConversationMemoryStore.  A Python dict is [py |-> "dict", keys, items] *)
(* and a list is [py |-> "list", len, items]; items of a list whose order  *)
(* Python leaves open (list(set)) is the set of its elements.              *)
(***************************************************************************)
SummaryLimit == 50      \* get_conversation_summary reads limit=50 rows
ContextLimit == 100     \* get_important_context reads limit=100 rows

EmptyDict == [py |-> "dict", keys |-> {}, items |-> <<>>]
PyDict(items) == [py |-> "dict", keys |-> DOMAIN items, items |-> items]
PyList(items) == [py |-> "list", len |-> Len(items), items |-> items]
PyListOfSet(elems) == [py |-> "list", len |-> Cardinality(elems), items |-> elems]

\* `keyword in text`: keyword is a substring of text.
Contains(text, keyword) ==
    \E i \in 1..(Len(text) - Len(keyword) + 1) :
        SubSeq(text, i, i + Len(keyword) - 1) = keyword

\* str.lower() on the letters A..Z; every other character stays.
UpperCase == "ABCDEFGHIJKLMNOPQRSTUVWXYZ"
LowerCase == "abcdefghijklmnopqrstuvwxyz"
LowerChar(c) ==
    IF \E i \in 1..Len(UpperCase) : SubSeq(UpperCase, i, i) = c
    THEN LET i == CHOOSE j \in 1..Len(UpperCase) : SubSeq(UpperCase, j, j) = c
         IN  SubSeq(LowerCase, i, i)
    ELSE c
\* A lower() that leaves every character as it is.
Lower_AsWritten(text) == text

RECURSIVE Lower(_)
Lower(text) ==
    IF Len(text) = 0 THEN ""
    ELSE LowerChar(SubSeq(text, 1, 1)) \o Lower(SubSeq(text, 2, Len(text)))

\* " ".join([conv.message.lower() for conv in conversations]), built by
\* halves.
RECURSIVE JoinLowerRange(_, _, _)
JoinLowerRange(convs, lo, hi) ==
    IF lo > hi THEN ""
    ELSE IF lo = hi THEN Lower(convs[lo].message)
    ELSE LET mid == (lo + hi) \div 2
         IN  JoinLowerRange(convs, lo, mid) \o " " \o JoinLowerRange(convs, mid + 1, hi)
JoinLower(convs) == JoinLowerRange(convs, 1, Len(convs))

\* timestamp.date() and timestamp.hour of a tick.
DateOf(t) == t \div TicksPerDay
HourOf(t) == ((t % TicksPerDay) * 24) \div TicksPerDay

\* The scores that are not None, in the order of the conversations.
Sentiments(convs) ==
    LET scored == SelectSeq(convs, LAMBDA c : c.sentiment_score # None)
    IN  [k \in 1..Len(scored) |-> scored[k].sentiment_score[1]]

\* sum(xs), added up by halves.
RECURSIVE SumRange(_, _, _)
SumRange(xs, lo, hi) ==
    IF lo > hi THEN 0
    ELSE IF lo = hi THEN xs[lo]
    ELSE LET mid == (lo + hi) \div 2
         IN  SumRange(xs, lo, mid) + SumRange(xs, mid + 1, hi)
SumSeq(xs) == SumRange(xs, 1, Len(xs))

\* _sentiment_to_description of the average sum/n of scores in tenths.
SentimentToDescription(sum, n) ==
    IF sum > 6 * n THEN "Very positive"
    ELSE IF sum > 2 * n THEN "Positive"
    ELSE IF sum > (-2) * n THEN "Neutral"
    ELSE IF sum > (-6) * n THEN "Somewhat negative"
    ELSE "Concerning/negative"

\* _extract_topics: topic_keywords, and the topics with a keyword that is a
\* substring of the joined lower-cased messages.
TopicKeywords ==
    [health |-> {"pain", "doctor", "hospital", "medicine", "sick", "health", "feel"},
     family |-> {"family", "children", "grandchildren", "spouse", "daughter", "son"},
     activities |-> {"walk", "exercise", "garden", "read", "watch", "hobby"},
     sleep |-> {"sleep", "tired", "rest", "bed", "night"},
     food |-> {"eat", "food", "hungry", "meal", "cook", "dinner", "lunch"},
     social |-> {"friend", "visit", "call", "lonely", "social", "people"}]

ExtractTopics(convs) ==
    LET all_text == JoinLower(convs)
    IN  {topic \in DOMAIN TopicKeywords :
            \E keyword \in TopicKeywords[topic] : Contains(all_text, keyword)}

\* daily_summaries[date]: the rows of convs of that date, in their order.
Bucket(convs, date) == SelectSeq(convs, LAMBDA c : DateOf(c.timestamp) = date)

\* One "=== date ===" section of the summary: its date, the "Overall mood"
\* line when a conversation of the day has a score, and the topics of the
\* "Topics discussed" line; bucket is daily_summaries[date], which the text
\* does not print.  The "Medications mentioned" line is not modelled.
Section(convs, date) ==
    LET day        == Bucket(convs, date)
        sentiments == Sentiments(day)
    IN  [date |-> date,
         mood |-> IF sentiments # <<>>
                  THEN Some(SentimentToDescription(SumSeq(sentiments), Len(sentiments)))
                  ELSE None,
         topics |-> ExtractTopics(day),
         bucket |-> [k \in 1..Len(day) |-> day[k].id]]

\* sorted(daily_summaries.items(), reverse=True): the sections, latest date
\* first.
RECURSIVE Sections(_, _)
Sections(convs, dates) ==
    IF dates = {} THEN <<>>
    ELSE LET d == CHOOSE x \in dates : \A y \in dates : x >= y
         IN  <<Section(convs, d)>> \o Sections(convs, dates \ {d})

NoRecentConversations == [text |-> "No recent conversations found."]

\* get_conversation_summary: the newest SummaryLimit rows of the user, then
\* the date filter, the literal for an empty result, and one section per day.
GetConversationSummary(cs, user_id, days, t) ==
    LET cutoff_date  == t - days * TicksPerDay
        recent_convs == SelectSeq(GetUserConversations(cs, user_id, SummaryLimit),
                                  LAMBDA c : c.timestamp >= cutoff_date)
    IN  IF recent_convs = <<>> THEN NoRecentConversations
        ELSE [text |-> "Conversation summary", user_id |-> user_id, days |-> days,
              sections |-> Sections(recent_convs,
                              {DateOf(recent_convs[k].timestamp) : k \in 1..Len(recent_convs)})]

\* sentiments[-5:] > sentiments[:5] : Python's lexicographic list order.
RECURSIVE ListGreater(_, _)
ListGreater(xs, ys) ==
    IF xs = <<>> THEN FALSE
    ELSE IF ys = <<>> THEN TRUE
    ELSE IF Head(xs) # Head(ys) THEN Head(xs) > Head(ys)
    ELSE ListGreater(Tail(xs), Tail(ys))

FirstN(xs, n) == SubSeq(xs, 1, IF n < Len(xs) THEN n ELSE Len(xs))
LastOf(xs, n) == SubSeq(xs, IF Len(xs) > n THEN Len(xs) - n + 1 ELSE 1, Len(xs))

\* _analyze_mood_patterns; average_mood is sum/n kept as <<sum, n>>.
AnalyzeMoodPatterns(convs) ==
    LET sentiments == Sentiments(convs)
    IN  IF convs = <<>> THEN EmptyDict
        ELSE IF sentiments = <<>> THEN EmptyDict
        ELSE PyDict([average_mood |-> <<SumSeq(sentiments), Len(sentiments)>>,
                     mood_trend |-> IF ListGreater(LastOf(sentiments, 5),
                                                   FirstN(sentiments, 5))
                                    THEN "improving" ELSE "stable",
                     total_conversations |-> Len(convs),
                     sentiment_distribution |->
                         [positive |-> Len(SelectSeq(sentiments, LAMBDA x : x > 2)),
                          neutral |-> Len(SelectSeq(sentiments,
                                                   LAMBDA x : (-2) <= x /\ x <= 2)),
                          negative |-> Len(SelectSeq(sentiments, LAMBDA x : x < -2))]])

\* An _analyze_medication_patterns with the early return of its neighbours.
AnalyzeMedicationPatterns_EarlyReturn(convs) ==
    IF convs = <<>> THEN EmptyDict
    ELSE PyDict([medication_discussions |-> Len(convs),
                 recent_medication_concerns |-> 0])

\* _analyze_medication_patterns: no early return; `c.sentiment_score and ...`
\* is false for None and for 0.
AnalyzeMedicationPatterns(convs) ==
    LET med_conversations ==
            SelectSeq(convs, LAMBDA c :
                \/ c.conversation_type = "medication"
                \/ \E word \in {"medication", "pill", "medicine", "dose"} :
                       Contains(Lower(c.message), word))
    IN  PyDict([medication_discussions |-> Len(med_conversations),
                recent_medication_concerns |->
                    Len(SelectSeq(LastOf(med_conversations, 10), LAMBDA c :
                            /\ c.sentiment_score # None
                            /\ c.sentiment_score[1] # 0
                            /\ c.sentiment_score[1] < -3))])

\* str.count: the non-overlapping occurrences of keyword in text from
\* position `from` on, leftmost first.
RECURSIVE CountFrom(_, _, _)
CountFrom(text, keyword, from) ==
    LET at == {i \in from..(Len(text) - Len(keyword) + 1) :
                  SubSeq(text, i, i + Len(keyword) - 1) = keyword}
    IN  IF at = {} THEN 0
        ELSE LET first == CHOOSE i \in at : \A j \in at : i <= j
             IN  1 + CountFrom(text, keyword, first + Len(keyword))
CountOccurrences(text, keyword) == CountFrom(text, keyword, 1)

ConcernNames == <<"pain", "sleep", "loneliness", "confusion", "anxiety">>
ConcernKeywords ==
    [pain |-> <<"pain", "hurt", "ache", "sore">>,
     sleep |-> <<"sleep", "insomnia", "tired", "rest">>,
     loneliness |-> <<"lonely", "alone", "isolated", "miss">>,
     confusion |-> <<"confused", "forgot", "remember", "memory">>,
     anxiety |-> <<"worried", "anxious", "scared", "nervous">>]

RECURSIVE ConcernCount(_, _, _)
ConcernCount(text, keywords, i) ==
    IF i > Len(keywords) THEN 0
    ELSE CountOccurrences(text, keywords[i]) + ConcernCount(text, keywords, i + 1)

\* sorted(..., key=count, reverse=True): highest count first, names of equal
\* count in their dict order.
RECURSIVE SortConcerns(_, _)
SortConcerns(text, S) ==
    IF S = {} THEN <<>>
    ELSE LET count(i) == ConcernCount(text, ConcernKeywords[ConcernNames[i]], 1)
             i == CHOOSE x \in S : \A y \in S :
                      \/ count(x) > count(y)
                      \/ (count(x) = count(y) /\ x <= y)
         IN  <<ConcernNames[i]>> \o SortConcerns(text, S \ {i})

\* _extract_common_concerns: a list of at most three names.
ExtractCommonConcerns(convs) ==
    LET all_messages == JoinLower(convs)
        found == {i \in 1..Len(ConcernNames) :
                     ConcernCount(all_messages, ConcernKeywords[ConcernNames[i]], 1) > 0}
    IN  PyList(FirstN(SortConcerns(all_messages, found), 3))

\* _extract_preferred_topics: list(set)[:3] of the topics of the
\* conversations with a score above 0.3 (None and 0 are false); which three
\* of more than three topics remain is open, so this is the set of the
\* lists it can return.
ExtractPreferredTopics(convs) ==
    LET positive_convs == SelectSeq(convs, LAMBDA c :
                              /\ c.sentiment_score # None
                              /\ c.sentiment_score[1] # 0
                              /\ c.sentiment_score[1] > 3)
        topics == ExtractTopics(positive_convs)
    IN  {PyListOfSet(T) : T \in {X \in SUBSET topics :
            Cardinality(X) = IF Cardinality(topics) < 3 THEN Cardinality(topics) ELSE 3}}

\* _find_most_active_time: max() returns the first of the keys with the
\* highest count.
TimesOfDay == <<"morning", "afternoon", "evening", "night">>
TimeOfDay(hour) ==
    IF 6 <= hour /\ hour < 12 THEN 1
    ELSE IF 12 <= hour /\ hour < 17 THEN 2
    ELSE IF 17 <= hour /\ hour < 22 THEN 3
    ELSE 4
FindMostActiveTime(convs) ==
    IF convs = <<>> THEN "unknown"
    ELSE LET count(k) == Len(SelectSeq(convs, LAMBDA c : TimeOfDay(HourOf(c.timestamp)) = k))
             best == CHOOSE k \in 1..4 : \A j \in 1..4 :
                        count(k) > count(j) \/ (count(k) = count(j) /\ k <= j)
         IN  TimesOfDay[best]

\* sum(len(conv.message) for conv in conversations)
TotalChars(convs) == SumSeq([k \in 1..Len(convs) |-> Len(convs[k].message)])

\* _analyze_communication_style; average_message_length is kept as
\* <<total_chars, n>>.
AnalyzeCommunicationStyle(convs) ==
    IF convs = <<>> THEN EmptyDict
    ELSE PyDict([average_message_length |-> <<TotalChars(convs), Len(convs)>>,
                 prefers_short_messages |-> TotalChars(convs) < 50 * Len(convs),
                 total_conversations |-> Len(convs),
                 most_active_time |-> FindMostActiveTime(convs)])

\* get_important_context: the contexts it can return (one per list that
\* _extract_preferred_topics can return).
GetImportantContext(cs, user_id) ==
    LET convs == GetUserConversations(cs, user_id, ContextLimit)
    IN  {[mood_patterns |-> AnalyzeMoodPatterns(convs),
          medication_patterns |-> AnalyzeMedicationPatterns(convs),
          common_concerns |-> ExtractCommonConcerns(convs),
          preferred_topics |-> preferred,
          communication_style |-> AnalyzeCommunicationStyle(convs)] :
         preferred \in ExtractPreferredTopics(convs)}

(***************************************************************************)
(* Initial state: create_tables() on an empty database.                    *)
(***************************************************************************)
Idle == [op |-> "none"]
\* No server process has run initialize_app: nothing is cached and no
\* scheduler thread runs.
NotStarted == [initialized |-> FALSE, scheduler_threads |-> 0, boots |-> 0]

Init ==
    /\ now = 0
    /\ users = {}
    /\ medications = <<>>
    /\ logs = <<>>
    /\ alerts = <<>>
    /\ sched_pc = "idle"
    /\ affected = {}
    /\ response = Idle
    /\ reminders = <<>>
    /\ conversations = <<>>
    /\ notification = Idle
    /\ server = NotStarted

(***************************************************************************)
(* Alert Generator (not in src/; modelled from the specification, §4.3).   *)
(***************************************************************************)
AdherenceWindowDays == 7    \* "7-day adherence rate"
AdherenceThreshold == 80    \* the rule fires below this rate
HighSeverityBelow == 50     \* severity is high below this rate, else medium

\* Dedup policy: skip creation when the user has an unresolved alert of the
\* same alert_type.
CreateAlertDedup(as, user_id, alert_type, severity, t) ==
    IF \E a \in GetUnresolvedAlerts(as, user_id) : a.alert_type = alert_type
    THEN as
    ELSE CreateAlert(as, user_id, alert_type, severity, t)

\* Adherence rule.
AdherenceRule(as, ls, user_id, t) ==
    LET a == GetMedicationAdherence(ls, user_id, AdherenceWindowDays, t)
    IN  IF a.total >= 1 /\ RateBelow(a.adherence_rate, AdherenceThreshold)
        THEN CreateAlertDedup(as, user_id, "medication_missed",
                              IF RateBelow(a.adherence_rate, HighSeverityBelow)
                              THEN "high" ELSE "medium", t)
        ELSE as

\* Mood rule: "average sentiment score over the last N conversations
\* (N configurable, default 5) is < -0.3"; conversations without a score do
\* not enter the average, and no score means no alert.
DefaultMoodWindow == 5
MoodThreshold == -3     \* -0.3 in tenths

RECURSIVE SumScores(_)
SumScores(cs) ==
    IF cs = <<>> THEN 0 ELSE Head(cs).sentiment_score[1] + SumScores(Tail(cs))

MoodRule(as, cs, user_id, n, t) ==
    LET last   == GetUserConversations(cs, user_id, n)
        scored == SelectSeq(last, LAMBDA c : c.sentiment_score # None)
    IN  IF Len(scored) >= 1 /\ SumScores(scored) < MoodThreshold * Len(scored)
        THEN CreateAlertDedup(as, user_id, "mood_concern", "medium", t)
        ELSE as

\* Emergency keyword rule: the latest conversation's message contains a
\* keyword of the configured set.
EmergencyKeywords == {"help", "emergency", "fallen"}

EmergencyConcerns(cs, user_id) ==
    LET latest == GetUserConversations(cs, user_id, 1)
    IN  IF latest = <<>> THEN {}
        ELSE {k \in EmergencyKeywords : Contains(latest[1].message, k)}

EmergencyRule(as, cs, user_id, t) ==
    IF EmergencyConcerns(cs, user_id) # {}
    THEN CreateAlertDedup(as, user_id, "emergency", "high", t)
    ELSE as

\* evaluate_user: the table caregiveralert after the three rules ran for
\* user_id with a mood window of n conversations.
EvaluateUser(as, ls, cs, user_id, n, t) ==
    EmergencyRule(MoodRule(AdherenceRule(as, ls, user_id, t), cs, user_id, n, t),
                  cs, user_id, t)

(***************************************************************************)
(* Reminder Scheduler (app/scheduling is not in src/; modelled from the    *)
(* specification, §4.2).                                                   *)
(***************************************************************************)
DayStart(t) == (t \div TicksPerDay) * TicksPerDay

\* Step 1: today's occurrences of every active medication.
Occurrences(meds, t) ==
    UNION {{[medication_id |-> meds[i].id, user_id |-> meds[i].user_id,
             scheduled_time |-> DayStart(t) + tod] : tod \in meds[i].schedule_times} :
           i \in {j \in 1..Len(meds) : meds[j].active}}

OccurrenceKey(o) == o.medication_id * (MaxTime + TicksPerDay + 1) + o.scheduled_time

\* Insert iff no row has the idempotency key (medication_id, scheduled_time).
RECURSIVE Materialize(_, _)
Materialize(ls, occ) ==
    IF occ = {} THEN ls
    ELSE LET o == CHOOSE x \in occ : \A y \in occ : OccurrenceKey(x) <= OccurrenceKey(y)
             have == \E i \in 1..Len(ls) :
                        /\ ls[i].medication_id = o.medication_id
                        /\ ls[i].scheduled_time = o.scheduled_time
         IN  Materialize(IF have THEN ls
                         ELSE Append(ls, MedicationLogRow(Len(ls) + 1, o.user_id,
                                             o.medication_id, o.scheduled_time,
                                             None, "pending")),
                         occ \ {o})

\* Step 3: update ... set status = 'missed' where status = 'pending' and
\* scheduled_time is more than the grace period in the past.
Overdue(l, t) == l.status = "pending" /\ l.scheduled_time + GracePeriod < t

MarkMissed(ls, t) ==
    [i \in 1..Len(ls) |-> IF Overdue(ls[i], t)
                          THEN [ls[i] EXCEPT !.status = "missed"]
                          ELSE ls[i]]

\* Step 4: the adherence check for every affected user, in id order.
RECURSIVE CheckAdherence(_, _, _, _)
CheckAdherence(as, ls, us, t) ==
    IF us = {} THEN as
    ELSE LET u == CHOOSE x \in us : \A y \in us : x <= y
         IN  CheckAdherence(AdherenceRule(as, ls, u, t), ls, us \ {u}, t)

(***************************************************************************)
(* Actions                                                                 *)
(***************************************************************************)
\* The wall clock moves on.
AdvanceTime ==
    /\ now < MaxTime
    /\ now' = now + 1
    /\ UNCHANGED <<users, medications, logs, alerts, sched_pc, affected, response,
                 reminders, conversations, notification, server>>

SampleUsers_NoGuard(us) == us \cup {1, 2}

\* The users after initialize_sample_data has run on a store with users us:
\* it returns at once when a user exists.  Otherwise it creates Dorothy and
\* Robert; the next call, create_user(..., user_type=..., password=...),
\* raises TypeError (create_user takes no such arguments), which the except
\* clause prints and swallows.
SampleUsers(us) == IF us # {} THEN us ELSE {1, 2}

\* initialize_sample_data
InitializeSampleData ==
    /\ users' = SampleUsers(users)
    /\ UNCHANGED <<now, medications, logs, alerts, sched_pc, affected, response,
                 reminders, conversations, notification, server>>

\* POST /users/
ApiCreateUser ==
    /\ Cardinality(users) < MaxUsers
    /\ users' = users \cup {Cardinality(users) + 1}
    /\ UNCHANGED <<now, medications, logs, alerts, sched_pc, affected, response,
                 reminders, conversations, notification, server>>

\* POST /medications/
ApiCreateMedication(user_id, schedule_times) ==
    /\ Len(medications) < MaxMeds
    /\ medications' = Append(medications,
                             [id |-> Len(medications) + 1, user_id |-> user_id,
                              schedule_times |-> schedule_times, active |-> TRUE])
    /\ UNCHANGED <<now, users, logs, alerts, sched_pc, affected, response,
                 reminders, conversations, notification, server>>

\* POST /medications/log/ : scheduled_time is datetime.now(), no taken_time.
ApiLogMedication(user_id, medication_id, status) ==
    /\ Len(logs) < MaxLogs
    /\ logs' = LogMedicationTaken(logs, user_id, medication_id, now, None, status, now)
    /\ UNCHANGED <<now, users, medications, alerts, sched_pc, affected, response,
                 reminders, conversations, notification, server>>

\* An adherence query that settles the pending rows it has read as missed.
ApiGetMedicationAdherence_Settling(user_id, days) ==
    /\ response' = [op |-> "get_medication_adherence", user_id |-> user_id,
                    days |-> days, t |-> now, status_code |-> 200,
                    error |-> "none", store_queries |-> 1,
                    body |-> GetMedicationAdherence(logs, user_id, days, now)]
    /\ logs' = [i \in 1..Len(logs) |->
                  IF logs[i].user_id = user_id /\ logs[i].status = "pending"
                  THEN [logs[i] EXCEPT !.status = "missed"] ELSE logs[i]]
    /\ UNCHANGED <<now, users, medications, alerts, sched_pc, affected,
                   reminders, conversations, notification, server>>

\* GET /medications/adherence/{user_id}?days= : one SELECT, then the CRUD
\* result with status 200.  Nothing raises for an unknown user_id or for
\* days < 0, so the except branch (status 500) is never taken.
ApiGetMedicationAdherence(user_id, days) ==
    /\ response' = [op |-> "get_medication_adherence", user_id |-> user_id,
                    days |-> days, t |-> now, status_code |-> 200,
                    error |-> "none", store_queries |-> 1,
                    body |-> GetMedicationAdherence(logs, user_id, days, now)]
    /\ UNCHANGED <<now, users, medications, logs, alerts, sched_pc, affected,
                 reminders, conversations, notification, server>>

\* Scheduler tick, step 1.
SchedMaterialize ==
    /\ sched_pc = "idle"
    /\ Len(Materialize(logs, Occurrences(medications, now))) <= MaxLogs
    /\ logs' = Materialize(logs, Occurrences(medications, now))
    /\ sched_pc' = "mark_missed"
    /\ UNCHANGED <<now, users, medications, alerts, affected, response,
                 reminders, conversations, notification, server>>

\* Scheduler tick, step 3.
SchedMarkMissed ==
    /\ sched_pc = "mark_missed"
    /\ logs' = MarkMissed(logs, now)
    /\ affected' = {logs[i].user_id : i \in {j \in 1..Len(logs) : Overdue(logs[j], now)}}
    /\ sched_pc' = "check_adherence"
    /\ UNCHANGED <<now, users, medications, alerts, response,
                 reminders, conversations, notification, server>>

\* Scheduler tick, step 4.
SchedCheckAdherence ==
    /\ sched_pc = "check_adherence"
    /\ Len(CheckAdherence(alerts, logs, affected, now)) <= MaxAlerts
    /\ alerts' = CheckAdherence(alerts, logs, affected, now)
    /\ affected' = {}
    /\ sched_pc' = "idle"
    /\ UNCHANGED <<now, users, medications, logs, response,
                 reminders, conversations, notification, server>>

\* The schedules asked for: once a day at the start of the day, once a day
\* at its end, or at every tick of the day.
ScheduleChoices == {{0}, {TicksPerDay - 1}, 0..(TicksPerDay - 1)}

\* The API and the scheduler thread running side by side.  The client logs
\* doses of medications that exist, under the medication's own user.
Next ==
    \/ AdvanceTime
    \/ InitializeSampleData
    \/ \E u \in users, ts \in ScheduleChoices : ApiCreateMedication(u, ts)
    \/ \E m \in 1..Len(medications), st \in Statuses :
          ApiLogMedication(medications[m].user_id, m, st)
    \/ SchedMaterialize
    \/ SchedMarkMissed
    \/ SchedCheckAdherence

Spec == Init /\ [][Next]_vars

(***************************************************************************)
(* SpecAdherence: the adherence query over log sets of every status mix.   *)
(* The initial log sets are what POST /medications/log/ leaves behind when *)
(* user 1 logs nt taken, nm missed, np pending and ns skipped doses of     *)
(* medication 1 at time 0.                                                 *)
(***************************************************************************)
RECURSIVE LogMany(_, _, _)
LogMany(ls, n, status) ==
    IF n = 0 THEN ls
    ELSE LogMany(LogMedicationTaken(ls, 1, 1, 0, None, status, 0), n - 1, status)

SampleLogs(nt, nm, np, ns) ==
    LogMany(LogMany(LogMany(LogMany(<<>>, nt, "taken"), nm, "missed"),
                    np, "pending"), ns, "skipped")

InitStore(us) ==
    /\ now = 0
    /\ users = us
    /\ medications = <<[id |-> 1, user_id |-> 1, schedule_times |-> {0},
                        active |-> TRUE]>>
    /\ alerts = <<>>
    /\ sched_pc = "idle"
    /\ affected = {}
    /\ response = Idle
    /\ reminders = <<>>
    /\ conversations = <<>>
    /\ notification = Idle
    /\ server = NotStarted

InitAdherence ==
    /\ InitStore({1})
    /\ \E nt \in 0..MaxTaken, nm \in 0..MaxMissed, np \in 0..MaxOther, ns \in 0..MaxOther :
          logs = SampleLogs(nt, nm, np, ns)

NextAdherence ==
    \/ AdvanceTime
    \/ ApiCreateUser
    \/ \E u \in 1..(MaxUsers + 1), d \in (-1)..MaxDays :
          ApiGetMedicationAdherence(u, d)

SpecAdherence == InitAdherence /\ [][NextAdherence]_vars

(***************************************************************************)
(* SpecAlerts: the alert generator and the alert commands over the same    *)
(* kind of log sets (taken and missed doses of user 1), with the two users *)
(* initialize_sample_data leaves in the store.                             *)
(***************************************************************************)
\* evaluate_user(user_id) with the mood window configured as n: returns the
\* alerts it created.  When the emergency rule fires, the notification
\* sender is invoked after the alert is written, with the matched keywords
\* as concerns and the caregiver's chat id; whether a bot token is
\* configured and what the network does is the environment's choice.
EvaluateUserWith(user_id, n) ==
    LET after == EvaluateUser(alerts, logs, conversations, user_id, n, now)
    IN  /\ Len(after) <= MaxAlerts
        /\ alerts' = after
        /\ response' = [op |-> "evaluate_user", user_id |-> user_id,
                        created |-> SubSeq(after, Len(alerts) + 1, Len(after))]
        /\ IF EmergencyConcerns(conversations, user_id) # {}
           THEN \E bot_token \in {None, Some("token")},
                   net \in {"ok", "not_ok", "connection_error"} :
                   notification' =
                       [op |-> "send_emergency_alert", user_id |-> user_id,
                        result |-> SendEmergencyAlert(bot_token, Some("42"),
                                       Some(<<"emergency keywords">>), Some("high"), net)]
           ELSE notification' = notification
        /\ UNCHANGED <<now, users, medications, logs, sched_pc, affected,
                       reminders, conversations, server>>

\* evaluate_user(user_id) with the default mood window.
EvaluateUserCall(user_id) == EvaluateUserWith(user_id, DefaultMoodWindow)

\* CaregiverAlertCRUD.create_alert called by another component.
CreateAlertCall(user_id, alert_type, severity) ==
    /\ Len(alerts) < MaxAlerts
    /\ alerts' = CreateAlert(alerts, user_id, alert_type, severity, now)
    /\ UNCHANGED <<now, users, medications, logs, sched_pc, affected, response,
                 reminders, conversations, notification, server>>

\* POST /alerts/{alert_id}/resolve
ApiResolveAlert(alert_id) ==
    /\ alerts' = ResolveAlert(alerts, alert_id, now)
    /\ UNCHANGED <<now, users, medications, logs, sched_pc, affected, response,
                 reminders, conversations, notification, server>>

InitAlerts ==
    /\ InitStore({1, 2})
    /\ \E nt \in 0..MaxTaken, nm \in 0..MaxMissed : logs = SampleLogs(nt, nm, 0, 0)

NextAlerts ==
    \/ \E u \in 1..MaxUsers : EvaluateUserCall(u)
    \/ \E u \in users, ty \in {"medication_missed", "emergency"} :
          CreateAlertCall(u, ty, "medium")
    \/ \E a \in 1..(MaxAlerts + 1) : ApiResolveAlert(a)

SpecAlerts == InitAlerts /\ [][NextAlerts]_vars

(***************************************************************************)
(* SpecReminders: the reminder commands and the due-reminders query, with  *)
(* the clock running.                                                      *)
(***************************************************************************)
\* ReminderCRUD.create_reminder called by another component, for a reminder
\* that is due now or one tick from now.
CreateReminderCall(user_id, scheduled_time) ==
    /\ Len(reminders) < MaxReminders
    /\ reminders' = CreateReminder(reminders, user_id, scheduled_time)
    /\ UNCHANGED <<now, users, medications, logs, alerts, sched_pc, affected,
                   response, conversations, notification, server>>

\* GET /reminders/{user_id} : the path parameter is an int, passed on as it
\* is; the body lists the rows the CRUD call returned.
ApiGetPendingReminders(user_id) ==
    /\ response' = [op |-> "get_pending_reminders", user_id |-> Some(user_id),
                    status_code |-> 200,
                    body |-> GetPendingReminders(reminders, Some(user_id), now)]
    /\ UNCHANGED <<now, users, medications, logs, alerts, sched_pc, affected,
                   reminders, conversations, notification, server>>

\* ReminderCRUD.get_pending_reminders() called without a user id.
GetPendingRemindersCall ==
    /\ response' = [op |-> "get_pending_reminders", user_id |-> None,
                    status_code |-> 200,
                    body |-> GetPendingReminders(reminders, None, now)]
    /\ UNCHANGED <<now, users, medications, logs, alerts, sched_pc, affected,
                   reminders, conversations, notification, server>>

\* POST /reminders/{reminder_id}/complete : for a missing id the handler
\* raises HTTPException(404) inside its own try block, and
\* `except Exception` turns it into status 500.
ApiCompleteReminder(reminder_id) ==
    /\ reminders' = CompleteReminder(reminders, reminder_id, now)
    /\ response' = [op |-> "complete_reminder", reminder_id |-> reminder_id,
                    status_code |-> IF reminder_id \in 1..Len(reminders)
                                    THEN 200 ELSE 500]
    /\ UNCHANGED <<now, users, medications, logs, alerts, sched_pc, affected,
                   conversations, notification, server>>

InitReminders ==
    /\ InitStore({1, 2})
    /\ logs = <<>>

NextReminders ==
    \/ AdvanceTime
    \/ \E u \in users, s \in {now, now + 1} : CreateReminderCall(u, s)
    \/ \E u \in 0..MaxUsers : ApiGetPendingReminders(u)
    \/ GetPendingRemindersCall
    \/ \E r \in 1..(MaxReminders + 1) : ApiCompleteReminder(r)

SpecReminders == InitReminders /\ [][NextReminders]_vars

(***************************************************************************)
(* SpecResolve: alerts created and resolved (POST /alerts/{id}/resolve,    *)
(* the portal's Resolve button) with the clock running.                    *)
(***************************************************************************)
InitResolve ==
    /\ InitStore({1, 2})
    /\ logs = <<>>

NextResolve ==
    \/ AdvanceTime
    \/ \E u \in users, ty \in {"medication_missed", "mood_concern"} :
          CreateAlertCall(u, ty, "medium")
    \/ \E a \in 1..(MaxAlerts + 1) : ApiResolveAlert(a)

SpecResolve == InitResolve /\ [][NextResolve]_vars

(***************************************************************************)
(* SpecNotifier: the notification sender called with every combination of  *)
(* configuration, arguments and network behaviour.                         *)
(***************************************************************************)
BotTokens == {None, Some(""), Some("token")}    \* os.getenv("TELEGRAM_BOT_TOKEN")
ChatIds == {None, Some(""), Some("42")}
SeverityValues == {None} \cup {Some(sv) : sv \in Severities \cup {"critical"}}
ConcernsValues ==
    {None} \cup {Some(c) : c \in UNION {[1..k -> {"chest pain"}] : k \in 0..MaxConcerns}}

\* TelegramNotifier().send_message(chat_id, message)
SendMessageCall(bot_token, chat_id, net) ==
    /\ notification' = [op |-> "send_message", bot_token |-> bot_token,
                        chat_id |-> chat_id, net |-> net,
                        result |-> SendMessage(bot_token, chat_id, net)]
    /\ UNCHANGED <<now, users, medications, logs, alerts, sched_pc, affected,
                   response, reminders, conversations, server>>

\* send_telegram_message(chat_id, message): a new TelegramNotifier, then
\* its send_message.
SendTelegramMessageCall(bot_token, chat_id, net) ==
    /\ notification' = [op |-> "send_telegram_message", bot_token |-> bot_token,
                        chat_id |-> chat_id, net |-> net,
                        result |-> SendMessage(bot_token, chat_id, net)]
    /\ UNCHANGED <<now, users, medications, logs, alerts, sched_pc, affected,
                   response, reminders, conversations, server>>

\* send_emergency_alert(chat_id, patient_name, concerns, severity, message):
\* a new TelegramNotifier, then its send_emergency_alert.
SendEmergencyAlertCall(bot_token, chat_id, concerns, severity, net) ==
    /\ notification' = [op |-> "send_emergency_alert", bot_token |-> bot_token,
                        chat_id |-> chat_id, concerns |-> concerns,
                        severity |-> severity, net |-> net,
                        result |-> SendEmergencyAlert(bot_token, chat_id, concerns,
                                                      severity, net)]
    /\ UNCHANGED <<now, users, medications, logs, alerts, sched_pc, affected,
                   response, reminders, conversations, server>>

InitNotifier ==
    /\ InitStore({1, 2})
    /\ logs = <<>>

NextNotifier ==
    \/ \E b \in BotTokens, c \in ChatIds, net \in NetOutcomes : SendMessageCall(b, c, net)
    \/ \E b \in BotTokens, c \in ChatIds, net \in NetOutcomes :
          SendTelegramMessageCall(b, c, net)
    \/ \E b \in BotTokens, c \in ChatIds, cn \in ConcernsValues,
          sv \in SeverityValues, net \in NetOutcomes :
          SendEmergencyAlertCall(b, c, cn, sv, net)

SpecNotifier == InitNotifier /\ [][NextNotifier]_vars

(***************************************************************************)
(* SpecMood: evaluate_user over conversation histories.  The initial store *)
(* is what save_conversation leaves behind when user 1 has had up to       *)
(* MaxConvs conversations, one per tick, with scores of one of the         *)
(* ScorePalettes, and user 2 one conversation of score 0.7 after them.     *)
(***************************************************************************)
ScorePalettes == {{7, -6, -9}, {-5, -4, -3}}
ExampleMoodWindow == 3      \* "within the mood-rule window of 3"
MoodWindows == {ExampleMoodWindow, DefaultMoodWindow}

RECURSIVE SaveScores(_, _, _)
SaveScores(cs, scores, i) ==
    IF i > Len(scores) THEN cs
    ELSE SaveScores(SaveConversation(cs, 1, "hello", Some(scores[i]), "general", i - 1),
                    scores, i + 1)

InitMood ==
    /\ users = {1, 2}
    /\ medications = <<>>
    /\ logs = <<>>
    /\ alerts = <<>>
    /\ sched_pc = "idle"
    /\ affected = {}
    /\ response = Idle
    /\ reminders = <<>>
    /\ notification = Idle
    /\ server = NotStarted
    /\ \E k \in 0..MaxConvs, palette \in ScorePalettes : \E scores \in [1..k -> palette] :
          /\ conversations = SaveConversation(SaveScores(<<>>, scores, 1), 2, "hello",
                                              Some(7), "general", k)
          /\ now = k + 1

NextMood ==
    \/ \E u \in 1..MaxUsers, n \in MoodWindows : EvaluateUserWith(u, n)
    \/ \E a \in 1..MaxAlerts : ApiResolveAlert(a)

SpecMood == InitMood /\ [][NextMood]_vars

(***************************************************************************)
(* SpecEmergency: evaluate_user over the messages of user 1, beside alerts *)
(* created by other components and the resolve command.                    *)
(***************************************************************************)
Messages == {"i feel fine today", "help i have fallen", "it is an emergency"}

RECURSIVE SaveMessages(_, _, _)
SaveMessages(cs, messages, i) ==
    IF i > Len(messages) THEN cs
    ELSE SaveMessages(SaveConversation(cs, 1, messages[i], Some(0), "general", i - 1),
                      messages, i + 1)

InitEmergency ==
    /\ users = {1, 2}
    /\ medications = <<>>
    /\ logs = <<>>
    /\ alerts = <<>>
    /\ sched_pc = "idle"
    /\ affected = {}
    /\ response = Idle
    /\ reminders = <<>>
    /\ notification = Idle
    /\ server = NotStarted
    /\ \E k \in 0..MaxMessages : \E messages \in [1..k -> Messages] :
          /\ conversations = SaveMessages(<<>>, messages, 1)
          /\ now = k

NextEmergency ==
    \/ \E u \in 1..MaxUsers : EvaluateUserCall(u)
    \/ \E u \in users : CreateAlertCall(u, "emergency", "medium")
    \/ \E a \in 1..MaxAlerts : ApiResolveAlert(a)

SpecEmergency == InitEmergency /\ [][NextEmergency]_vars

(***************************************************************************)
(* SpecSummary: the summary and context queries over conversation          *)
(* histories.  A varied store holds up to MaxHistory conversations of      *)
(* user 1 drawn from ConvSamples, one per tick or one per day, and         *)
(* possibly one conversation of user 2; a bulk store holds up to MaxOld    *)
(* conversations of user 1 on day 0 and about SummaryLimit on day 1.       *)
(***************************************************************************)
ConvSamples ==
    {[message |-> "I feel pain", sentiment_score |-> Some(-5),
      conversation_type |-> "general"],
     [message |-> "My SON came to visit", sentiment_score |-> Some(7),
      conversation_type |-> "general"],
     [message |-> "took my pill", sentiment_score |-> None,
      conversation_type |-> "medication"],
     [message |-> "hello", sentiment_score |-> Some(0),
      conversation_type |-> "general"]}

RECURSIVE SaveSamples(_, _, _, _)
SaveSamples(cs, samples, gap, i) ==
    IF i > Len(samples) THEN cs
    ELSE SaveSamples(SaveConversation(cs, 1, samples[i].message,
                                      samples[i].sentiment_score,
                                      samples[i].conversation_type, (i - 1) * gap),
                     samples, gap, i + 1)

\* n calls of save_conversation for user 1 at time t.
SaveBulk(cs, n, t) ==
    [i \in 1..(Len(cs) + n) |->
        IF i <= Len(cs) THEN cs[i]
        ELSE SaveConversation([j \in 1..(i - 1) |-> 0], 1, "hi",
                              Some(0), "general", t)[i]]

InitSummary ==
    /\ users = {1, 2}
    /\ medications = <<>>
    /\ logs = <<>>
    /\ alerts = <<>>
    /\ sched_pc = "idle"
    /\ affected = {}
    /\ response = Idle
    /\ reminders = <<>>
    /\ notification = Idle
    /\ server = NotStarted
    /\ \/ \E k \in 0..MaxHistory, gap \in {1, TicksPerDay} :
            \E samples \in [1..k -> ConvSamples], other \in IF k = 0 THEN BOOLEAN ELSE {TRUE} :
               /\ conversations =
                     IF other
                     THEN SaveConversation(SaveSamples(<<>>, samples, gap, 1), 2,
                                           "I feel pain", Some(-5), "general", k * gap)
                     ELSE SaveSamples(<<>>, samples, gap, 1)
               /\ now = k * gap
       \/ \E n_old \in {0, MaxOld}, n_new \in {SummaryLimit - 1, SummaryLimit, MaxBulk} :
               /\ conversations = SaveBulk(SaveBulk(<<>>, n_old, 0), n_new, TicksPerDay)
               /\ now = TicksPerDay

\* GET /memory/{user_id}/summary?days=
ApiGetConversationSummary(user_id, days) ==
    /\ response' = [op |-> "get_conversation_summary", user_id |-> user_id,
                    days |-> days, t |-> now, status_code |-> 200,
                    body |-> GetConversationSummary(conversations, user_id, days, now)]
    /\ UNCHANGED <<now, users, medications, logs, alerts, sched_pc, affected,
                   reminders, conversations, notification, server>>

\* GET /memory/{user_id}/context
ApiGetImportantContext(user_id) ==
    /\ \E context \in GetImportantContext(conversations, user_id) :
          response' = [op |-> "get_important_context", user_id |-> user_id,
                       status_code |-> 200, body |-> context]
    /\ UNCHANGED <<now, users, medications, logs, alerts, sched_pc, affected,
                   reminders, conversations, notification, server>>

NextSummary ==
    \/ \E u \in 1..(MaxUsers + 1), d \in 0..MaxDays : ApiGetConversationSummary(u, d)
    \/ \E u \in 1..(MaxUsers + 1) : ApiGetImportantContext(u)

SpecSummary == InitSummary /\ [][NextSummary]_vars

(***************************************************************************)
(* SpecConversations: conversations are saved while the chat history, the  *)
(* sentiment trends, the summary, the context, the alert generator and the *)
(* scheduler run over them.  User 1 is the one who chats; the queries are  *)
(* asked for both users with the defaults of their routes.                 *)
(***************************************************************************)
DefaultHistoryLimit == 50   \* GET /chat/history/{user_id}: limit: int = 50
DefaultSummaryDays == 7     \* GET /memory/{user_id}/summary: days: int = 7
DefaultTrendDays == 30      \* GET /analytics/{user_id}/sentiment: days: int = 30

ChatSamples ==
    {[message |-> "I feel pain", sentiment_score |-> Some(-5),
      conversation_type |-> "general"],
     [message |-> "My SON came to visit", sentiment_score |-> Some(7),
      conversation_type |-> "general"]}

\* ConversationCRUD.save_conversation(user_id, message, ...) at the current
\* time (timestamp defaults to datetime.now()); it returns the new row.
SaveConversationCall(user_id, sample) ==
    /\ Len(conversations) < MaxSaved
    /\ conversations' = SaveConversation(conversations, user_id, sample.message,
                                         sample.sentiment_score,
                                         sample.conversation_type, now)
    /\ response' = [op |-> "save_conversation", user_id |-> user_id,
                    body |-> conversations'[Len(conversations')]]
    /\ UNCHANGED <<now, users, medications, logs, alerts, sched_pc, affected,
                   reminders, notification, server>>

\* GET /chat/history/{user_id}?limit=
ApiGetChatHistory(user_id, limit) ==
    /\ response' = [op |-> "get_chat_history", user_id |-> user_id, status_code |-> 200,
                    body |-> GetUserConversations(conversations, user_id, limit)]
    /\ UNCHANGED <<now, users, medications, logs, alerts, sched_pc, affected,
                   reminders, conversations, notification, server>>

\* GET /analytics/{user_id}/sentiment?days=
ApiGetSentimentTrends(user_id, days) ==
    /\ LET data == GetRecentSentimentData(conversations, user_id, days, now)
           kept == SelectSeq(data, LAMBDA c : c.sentiment_score # None)
       IN  response' = [op |-> "get_sentiment_trends", user_id |-> user_id,
                        status_code |-> 200,
                        body |-> [k \in 1..Len(kept) |->
                                     [date |-> DateOf(kept[k].timestamp),
                                      sentiment_score |-> kept[k].sentiment_score[1]]]]
    /\ UNCHANGED <<now, users, medications, logs, alerts, sched_pc, affected,
                   reminders, conversations, notification, server>>

InitConversations == InitStore({1, 2}) /\ logs = <<>>

NextConversations ==
    \/ \E sample \in ChatSamples : SaveConversationCall(1, sample)
    \/ \E u \in users : ApiGetChatHistory(u, DefaultHistoryLimit)
    \/ \E u \in users : ApiGetSentimentTrends(u, DefaultTrendDays)
    \/ \E u \in users : ApiGetConversationSummary(u, DefaultSummaryDays)
    \/ \E u \in users : ApiGetImportantContext(u)
    \/ \E u \in users : EvaluateUserCall(u)
    \/ SchedMaterialize
    \/ SchedMarkMissed
    \/ SchedCheckAdherence

SpecConversations == InitConversations /\ [][NextConversations]_vars

(***************************************************************************)
(* SpecDeployment: the Streamlit server process.  Every run of the script  *)
(* calls main(), which calls initialize_app(); st.cache_resource keeps its *)
(* result for the life of the process.  The database file outlives the     *)
(* process, the cache and the daemon scheduler thread do not.              *)
(***************************************************************************)
\* An initialize_app without st.cache_resource: every call runs the body.
InitializeApp_Uncached(srv) ==
    [srv EXCEPT !.initialized = TRUE, !.scheduler_threads = @ + 1]

\* initialize_app under @st.cache_resource: the first call of a process runs
\* the body and starts the scheduler thread, later calls return the cached
\* scheduler.
InitializeApp(srv) ==
    IF srv.initialized THEN srv
    ELSE [srv EXCEPT !.initialized = TRUE, !.scheduler_threads = @ + 1]

\* One run of the script: main() calls initialize_app().  On a cache miss
\* its body runs create_tables() and initialize_sample_data() before it
\* starts the thread.
Main ==
    /\ server' = InitializeApp(server)
    /\ users' = IF server.initialized THEN users ELSE SampleUsers(users)
    /\ UNCHANGED <<now, medications, logs, alerts, sched_pc, affected, response,
                   reminders, conversations, notification>>

\* The server process ends and a new one is started: the cache is empty and
\* the daemon thread is gone, wherever in its tick it was.
Restart ==
    /\ server.boots < MaxBoots
    /\ server' = [initialized |-> FALSE, scheduler_threads |-> 0,
                  boots |-> server.boots + 1]
    /\ sched_pc' = "idle"
    /\ affected' = {}
    /\ UNCHANGED <<now, users, medications, logs, alerts, response,
                   reminders, conversations, notification>>

\* The scheduler thread, when one has been started.
SchedulerThread ==
    /\ server.scheduler_threads >= 1
    /\ \/ SchedMaterialize
       \/ SchedMarkMissed
       \/ SchedCheckAdherence

NextDeployment ==
    \/ AdvanceTime
    \/ Main
    \/ Restart
    \/ ApiCreateUser
    \/ \E u \in users, ts \in ScheduleChoices : ApiCreateMedication(u, ts)
    \/ SchedulerThread

SpecDeployment == Init /\ [][NextDeployment]_vars

(***************************************************************************)
(* SpecCompletion: reminders and alerts of user 1 are created, completed   *)
(* and resolved while the two pending queries are asked, at one instant    *)
(* of the clock.                                                           *)
(***************************************************************************)
\* GET /alerts/{user_id} : the body lists the unresolved alerts the CRUD
\* call returned.
ApiGetCaregiverAlerts(user_id) ==
    /\ response' = [op |-> "get_caregiver_alerts", user_id |-> user_id,
                    status_code |-> 200,
                    body |-> {a.id : a \in GetUnresolvedAlerts(alerts, user_id)}]
    /\ UNCHANGED <<now, users, medications, logs, alerts, sched_pc, affected,
                   reminders, conversations, notification, server>>

NextCompletion ==
    \/ \E s \in {now, now + 1} : CreateReminderCall(1, s)
    \/ \E r \in 1..MaxReminders : ApiCompleteReminder(r)
    \/ \E u \in 0..1 : ApiGetPendingReminders(u)
    \/ CreateAlertCall(1, "medication_missed", "medium")
    \/ \E a \in 1..MaxAlerts : ApiResolveAlert(a)
    \/ \E u \in 0..1 : ApiGetCaregiverAlerts(u)

SpecCompletion == InitReminders /\ [][NextCompletion]_vars

(***************************************************************************)
(* SpecOverview: the caregiver portal's patient overview over stores in    *)
(* which user 1 has conversations with a negative, a zero, a positive or   *)
(* no score, the first of them possibly older than the 7-day window.       *)
(***************************************************************************)
OverviewDays == 7       \* get_recent_sentiment_data(patient_id, days=7)

\* The "Avg Mood (7d)" metric of show_patient_overview: "No data" for an
\* empty list; otherwise the sum of the truthy scores divided by their
\* number (`if c.sentiment_score` is false for 0), kept as <<sum, n>>; the
\* division raises when no score is truthy.
AvgMood(convs) ==
    IF convs = <<>> THEN [raised |-> FALSE, metric |-> "No data"]
    ELSE LET truthy == SelectSeq(convs, LAMBDA c : Truthy(c.sentiment_score))
         IN  IF truthy = <<>> THEN Raised("ZeroDivisionError")
             ELSE [raised |-> FALSE, metric |-> "avg_mood",
                   avg_mood |-> <<SumSeq(Sentiments(truthy)), Len(truthy)>>]

\* show_patient_overview(patient_id), second column.
ShowPatientOverview(patient_id) ==
    /\ response' = [op |-> "show_patient_overview", patient_id |-> patient_id,
                    t |-> now,
                    body |-> AvgMood(GetRecentSentimentData(conversations, patient_id,
                                                            OverviewDays, now))]
    /\ UNCHANGED <<now, users, medications, logs, alerts, sched_pc, affected,
                   reminders, conversations, notification, server>>

OverviewScores == {None, Some(-5), Some(0), Some(7)}

InitOverview ==
    /\ users = {1, 2}
    /\ medications = <<>>
    /\ logs = <<>>
    /\ alerts = <<>>
    /\ sched_pc = "idle"
    /\ affected = {}
    /\ response = Idle
    /\ reminders = <<>>
    /\ notification = Idle
    /\ server = NotStarted
    /\ now = OverviewDays * TicksPerDay + 1
    /\ \E k \in 0..MaxConvs, old \in BOOLEAN :
          \E scores \in [1..k -> OverviewScores] :
             conversations =
                [i \in 1..k |->
                    [id |-> i, user_id |-> 1, message |-> "hello",
                     sentiment_score |-> scores[i], conversation_type |-> "general",
                     timestamp |-> IF old /\ i = 1 THEN 0 ELSE now - 1]]

NextOverview == \E p \in 1..MaxUsers : ShowPatientOverview(p)

SpecOverview == InitOverview /\ [][NextOverview]_vars

(***************************************************************************)
(* SpecTrend: the context signals over histories of user 1 that are long   *)
(* enough for the two slices of five scores to differ: up to MaxTrend      *)
(* conversations, one per tick, each with a low or a high score.           *)
(***************************************************************************)
TrendScores == {-5, 7}

InitTrend ==
    /\ users = {1, 2}
    /\ medications = <<>>
    /\ logs = <<>>
    /\ alerts = <<>>
    /\ sched_pc = "idle"
    /\ affected = {}
    /\ response = Idle
    /\ reminders = <<>>
    /\ notification = Idle
    /\ server = NotStarted
    /\ \E n \in 1..MaxTrend :
          \E scores \in [1..n -> TrendScores] :
             /\ conversations = SaveScores(<<>>, scores, 1)
             /\ now = n

NextTrend == \E u \in 1..MaxUsers : ApiGetImportantContext(u)

SpecTrend == InitTrend /\ [][NextTrend]_vars

(***************************************************************************)
(* Properties                                                              *)
(***************************************************************************)
\* Rows of user u the adherence query is to select at time t for a window
\* of d days, and those among them with a given status.
InWindow(u, d, t) ==
    {i \in 1..Len(logs) : logs[i].user_id = u
                          /\ logs[i].scheduled_time >= t - d * TicksPerDay}
WithStatus(S, st) == {i \in S : logs[i].status = st}

\* C1: a MedicationLog row that has reached taken, missed or skipped keeps
\* that status in every later step; no row is deleted, no scheduled_time
\* changes, and a pending row only stays pending or moves to a status of
\* the model.
C1_StatusOneWay ==
    [][/\ Len(logs') >= Len(logs)
       /\ \A i \in 1..Len(logs) :
            /\ logs'[i].scheduled_time = logs[i].scheduled_time
            /\ (logs[i].status # "pending" => logs'[i].status = logs[i].status)
            /\ (logs[i].status = "pending"
                  => logs'[i].status \in {"pending", "taken", "missed", "skipped"})]_vars

\* A dose the scheduler materialized has been moved to missed, and the API
\* has written a taken row after it.
C1_Witness ==
    \E i, j \in 1..Len(logs) :
        /\ i < j
        /\ logs[i].status = "missed" /\ logs[i].taken_time = None
        /\ logs[j].status = "taken"

\* C2: the store holds at most one MedicationLog row per
\* (medication_id, scheduled_time).
C2_OneLogPerOccurrence ==
    \A i, j \in 1..Len(logs) :
        (/\ logs[i].medication_id = logs[j].medication_id
         /\ logs[i].scheduled_time = logs[j].scheduled_time) => i = j

\* C3: a dose of a once-a-day medication that the patient logged as taken
\* after it was materialized, on its day and before its grace period ran
\* out, is never marked missed.
C3_TakenWinsOverMissed ==
    \A i, j \in 1..Len(logs) :
        (/\ i < j
         /\ logs[i].taken_time = None
         /\ logs[j].status = "taken"
         /\ logs[j].medication_id = logs[i].medication_id
         /\ logs[j].user_id = logs[i].user_id
         /\ logs[i].medication_id \in 1..Len(medications)
         /\ Cardinality(medications[logs[i].medication_id].schedule_times) = 1
         /\ DayStart(logs[j].scheduled_time) = DayStart(logs[i].scheduled_time)
         /\ logs[j].scheduled_time <= logs[i].scheduled_time + GracePeriod)
        => logs[i].status # "missed"

\* C4: at most one unresolved CaregiverAlert per (user_id, alert_type).
C4_OneUnresolvedPerUserType ==
    \A i, j \in 1..Len(alerts) :
        (/\ ~alerts[i].resolved /\ ~alerts[j].resolved
         /\ alerts[i].user_id = alerts[j].user_id
         /\ alerts[i].alert_type = alerts[j].alert_type) => i = j

\* The adherence rule's verdict for user u, counted from the table.
RuleTotal(u) == Cardinality(InWindow(u, AdherenceWindowDays, now))
RuleTaken(u) == Cardinality(WithStatus(InWindow(u, AdherenceWindowDays, now), "taken"))
RuleFires(u) == RuleTotal(u) >= 1 /\ RuleTaken(u) * 100 < 80 * RuleTotal(u)
RuleSeverity(u) == IF RuleTaken(u) * 100 >= 50 * RuleTotal(u) THEN "medium" ELSE "high"
HasUnresolved(u, ty) ==
    \E i \in 1..Len(alerts) :
        ~alerts[i].resolved /\ alerts[i].user_id = u /\ alerts[i].alert_type = ty
HasAlert(u, ty) ==
    \E i \in 1..Len(alerts) : alerts[i].user_id = u /\ alerts[i].alert_type = ty
Is60(u) == RuleTotal(u) >= 1 /\ RuleTaken(u) * 100 = 60 * RuleTotal(u)

\* C5: evaluate_user(u) leaves the existing alerts as they are and, when
\* total >= 1 and rate < 80% and no unresolved medication_missed alert of u
\* is in the way (dedup), appends exactly one unresolved medication_missed
\* alert for u, of severity medium when rate >= 50% and high when rate < 50%;
\* when total = 0 or rate >= 80% it appends nothing.
C5_AdherenceRule ==
    [][\A u \in 1..MaxUsers :
         EvaluateUserCall(u) =>
           LET created == SelectSeq(SubSeq(alerts', Len(alerts) + 1, Len(alerts')),
                                    LAMBDA a : a.alert_type = "medication_missed")
           IN  /\ SubSeq(alerts', 1, Len(alerts)) = alerts
               /\ (RuleFires(u) /\ ~HasUnresolved(u, "medication_missed"))
                    => /\ Len(created) = 1
                       /\ created[1].user_id = u
                       /\ created[1].alert_type = "medication_missed"
                       /\ created[1].severity = RuleSeverity(u)
                       /\ created[1].resolved = FALSE
               /\ ~RuleFires(u) => created = <<>>
               /\ HasUnresolved(u, "medication_missed") => created = <<>>]_vars

\* evaluate_user has created a high medication_missed alert.
C5_Witness ==
    /\ response.op = "evaluate_user"
    /\ Len(response.created) = 1
    /\ response.created[1].alert_type = "medication_missed"
    /\ response.created[1].severity = "high"
    /\ RuleFires(response.user_id)

C7_AdherenceCounts ==
    response.op = "get_medication_adherence" =>
        LET S == InWindow(response.user_id, response.days, response.t)
            b == response.body
        IN  /\ response.error = "none"
            /\ b.total = Cardinality(S)
            /\ b.taken = Cardinality(WithStatus(S, "taken"))
            /\ b.missed = Cardinality(WithStatus(S, "missed"))
            /\ b.total > 0 => b.adherence_rate[1] * b.total
                                 = b.taken * 100 * b.adherence_rate[2]
            /\ b.total = 0 => b.adherence_rate = <<0, 1>>
            /\ (Cardinality(S) = 10 /\ Cardinality(WithStatus(S, "taken")) = 7
                 /\ Cardinality(WithStatus(S, "missed")) = 3)
                  => RateIs(b.adherence_rate, 70)

\* The query has answered 10, 7, 3 and 70.
C7_Witness ==
    /\ response.op = "get_medication_adherence"
    /\ response.body.total = 10
    /\ response.body.taken = 7
    /\ response.body.missed = 3
    /\ RateIs(response.body.adherence_rate, 70)

\* C8: for every user and window of d >= 0 days the adherence query selects
\* exactly the user's rows with now - d days <= scheduled_time <= now.
C8_ClosedWindow ==
    \A u \in 1..MaxUsers, d \in 0..MaxDays :
        LET sel == AdherenceLogs(logs, u, d, now)
        IN  {sel[k].id : k \in 1..Len(sel)}
              = {i \in 1..Len(logs) :
                   /\ logs[i].user_id = u
                   /\ logs[i].scheduled_time >= now - d * TicksPerDay
                   /\ logs[i].scheduled_time <= now}

\* C9: the adherence query for a user_id that is no row of table user fails
\* with NotFoundError.
C9_UnknownUserNotFound ==
    (response.op = "get_medication_adherence" /\ response.user_id \notin users)
        => response.error = "NotFoundError"

\* C10: the adherence query with negative window_days fails with
\* ValidationError without a query to the store.
C10_NegativeDaysRejected ==
    (response.op = "get_medication_adherence" /\ response.days < 0)
        => response.error = "ValidationError" /\ response.store_queries = 0

\* C11: the adherence query is a pure read: for every user_id and days, a
\* step of it leaves the tables user, medication, medicationlog, reminder,
\* conversation and caregiveralert exactly as they were.
C11_PureRead ==
    [][\A u \in 1..(MaxUsers + 1), d \in (-1)..MaxDays :
         ApiGetMedicationAdherence(u, d)
           => UNCHANGED <<users, medications, logs, reminders, conversations, alerts, server>>]_vars

\* The query has counted a pending row among its rows, and the row is still
\* pending.
C11_Witness ==
    /\ response.op = "get_medication_adherence"
    /\ response.body.total >= 1
    /\ \E k \in 1..Len(response.body.logs) :
          /\ response.body.logs[k].status = "pending"
          /\ logs[response.body.logs[k].id].status = "pending"

\* C12: in every reachable state, completed_at of a Reminder is set if and
\* only if its completed flag is true.
C12_CompletedAtIffCompleted ==
    \A i \in 1..Len(reminders) :
        (reminders[i].completed_at # None) <=> (reminders[i].completed = TRUE)

\* One reminder has been completed and another is still open.
C12_Witness ==
    \E i, j \in 1..Len(reminders) :
        /\ reminders[i].completed /\ reminders[i].completed_at # None
        /\ ~reminders[j].completed /\ reminders[j].completed_at = None

\* C13: the due-reminders query answers with exactly the reminders that are
\* not completed and have scheduled_time <= now, those of the given user when
\* a user id is supplied and those of all users otherwise.
C13_DueReminders ==
    [][/\ \A u \in 0..MaxUsers :
            ApiGetPendingReminders(u)
              => response'.body = {i \in 1..Len(reminders) :
                                     /\ ~reminders[i].completed
                                     /\ reminders[i].scheduled_time <= now
                                     /\ reminders[i].user_id = u}
       /\ GetPendingRemindersCall
              => response'.body = {i \in 1..Len(reminders) :
                                     /\ ~reminders[i].completed
                                     /\ reminders[i].scheduled_time <= now}]_vars

\* C15: complete_reminder applied to a reminder that is already completed
\* leaves its completed flag and its completed_at as they were.
C15_CompleteIdempotent ==
    [][\A r \in 1..Len(reminders) :
         (ApiCompleteReminder(r) /\ reminders[r].completed)
           => /\ reminders'[r].completed = reminders[r].completed
              /\ reminders'[r].completed_at = reminders[r].completed_at]_vars

\* C14: once an alert is resolved, no later step changes its resolved flag
\* or its resolved_at.
C14_ResolvedOnce ==
    [][\A i \in 1..Len(alerts) :
         alerts[i].resolved
           => /\ alerts'[i].resolved = TRUE
              /\ alerts'[i].resolved_at = alerts[i].resolved_at]_vars

\* C16: every call of send_message, send_emergency_alert and
\* send_telegram_message returns a result with success true or false and, on
\* failure, an error text; none raises.
C16_NotifierNeverThrows ==
    notification.op \in {"send_message", "send_telegram_message", "send_emergency_alert"}
        => /\ notification.result.raised = FALSE
           /\ notification.result.success \in BOOLEAN
           /\ (notification.result.success = FALSE => notification.result.error # "")

\* The conversations of user u, and the last n of them by timestamp.
UserConvs(u) == {i \in 1..Len(conversations) : conversations[i].user_id = u}
LastN(u, n) ==
    {i \in UserConvs(u) :
        Cardinality({j \in UserConvs(u) :
                        conversations[j].timestamp > conversations[i].timestamp}) < n}
RECURSIVE ScoreSum(_)
ScoreSum(S) ==
    IF S = {} THEN 0
    ELSE LET i == CHOOSE x \in S : TRUE
         IN  conversations[i].sentiment_score[1] + ScoreSum(S \ {i})
\* average of the last n scores < -0.3, in tenths.
MoodFires(u, n) ==
    LastN(u, n) # {} /\ ScoreSum(LastN(u, n)) < (-3) * Cardinality(LastN(u, n))
\* The scores of user u, oldest first.
UserScores(u) ==
    LET own == SelectSeq(conversations, LAMBDA c : c.user_id = u)
    IN  [i \in 1..Len(own) |-> own[i].sentiment_score[1]]
\* The latest message of user u contains an emergency keyword.
EmergencyFires(u) ==
    \E i \in UserConvs(u) :
        /\ \A j \in UserConvs(u) : conversations[j].timestamp <= conversations[i].timestamp
        /\ \E k \in EmergencyKeywords : Contains(conversations[i].message, k)

\* C17: when the emergency keyword rule fires in evaluate_user(u), then
\* whatever the notification sender reports, the alerts that existed stay as
\* they were, an unresolved emergency alert of u is in the table afterwards,
\* and unless one was there already (dedup) it is a new alert of severity
\* high.
C17_EmergencyAlertPersisted ==
    [][\A u \in 1..MaxUsers :
         (response'.op = "evaluate_user" /\ response'.user_id = u
            /\ EmergencyFires(u) /\ EvaluateUserCall(u))
           => LET created == SelectSeq(SubSeq(alerts', Len(alerts) + 1, Len(alerts')),
                                       LAMBDA a : a.alert_type = "emergency")
              IN  /\ notification'.op = "send_emergency_alert"
                  /\ SubSeq(alerts', 1, Len(alerts)) = alerts
                  /\ \E i \in 1..Len(alerts') :
                        /\ alerts'[i].user_id = u
                        /\ alerts'[i].alert_type = "emergency"
                        /\ alerts'[i].resolved = FALSE
                  /\ ~HasUnresolved(u, "emergency")
                        => /\ Len(created) = 1
                           /\ created[1].user_id = u
                           /\ created[1].severity = "high"
                           /\ created[1].resolved = FALSE]_vars

\* The sender has reported a failure, and the emergency alert that
\* evaluate_user created is in the table.
C17_Witness ==
    /\ notification.op = "send_emergency_alert"
    /\ notification.result.raised = FALSE
    /\ notification.result.success = FALSE
    /\ response.op = "evaluate_user"
    /\ \E k \in 1..Len(response.created) :
          /\ response.created[k].alert_type = "emergency"
          /\ response.created[k].severity = "high"
          /\ response.created[k].id \in 1..Len(alerts)
          /\ alerts[response.created[k].id].alert_type = "emergency"

\* C18: evaluate_user(u) with mood window n appends one unresolved
\* mood_concern alert of severity medium for u when the average score of u's
\* last n conversations is strictly below -0.3 and no unresolved mood_concern
\* alert of u is in the way (dedup), and none otherwise; with n = 3 the
\* scores 0.7, -0.6, -0.6 and 0.7, -0.6, -0.9 give none and -0.5, -0.4, -0.3
\* give exactly one.
C18_MoodRule ==
    [][\A u \in 1..MaxUsers, n \in MoodWindows :
         (response'.op = "evaluate_user" /\ response'.user_id = u
            /\ EvaluateUserWith(u, n)) =>
           LET created == SelectSeq(SubSeq(alerts', Len(alerts) + 1, Len(alerts')),
                                    LAMBDA a : a.alert_type = "mood_concern")
           IN  /\ (MoodFires(u, n) /\ ~HasUnresolved(u, "mood_concern"))
                    => /\ Len(created) = 1
                       /\ created[1].user_id = u
                       /\ created[1].severity = "medium"
                       /\ created[1].resolved = FALSE
               /\ ~MoodFires(u, n) => created = <<>>
               /\ HasUnresolved(u, "mood_concern") => created = <<>>
               /\ (n = 3 /\ UserScores(u) \in {<<7, -6, -6>>, <<7, -6, -9>>})
                    => created = <<>>
               /\ (n = 3 /\ UserScores(u) = <<-5, -4, -3>>
                        /\ ~HasUnresolved(u, "mood_concern"))
                    => Len(created) = 1]_vars

\* evaluate_user has created the one mood_concern alert of a user whose
\* scores are -0.5, -0.4, -0.3.
C18_Witness ==
    /\ response.op = "evaluate_user"
    /\ UserScores(response.user_id) = <<-5, -4, -3>>
    /\ Len(response.created) = 1
    /\ response.created[1].alert_type = "mood_concern"
    /\ response.created[1].severity = "medium"

IsEmptyDict(v) == v.py = "dict" /\ v.keys = {}
IsEmptyList(v) == v.py = "list" /\ v.len = 0

\* C19 as stated: for a user with no conversations the summary is the
\* literal "No recent conversations found." and each of the five signal
\* groups of the context is an empty dict.
C19_EmptyGroupsAreDicts ==
    /\ (response.op = "get_conversation_summary" /\ UserConvs(response.user_id) = {})
          => response.status_code = 200 /\ response.body = NoRecentConversations
    /\ (response.op = "get_important_context" /\ UserConvs(response.user_id) = {})
          => /\ response.status_code = 200
             /\ IsEmptyDict(response.body.mood_patterns)
             /\ IsEmptyDict(response.body.medication_patterns)
             /\ IsEmptyDict(response.body.common_concerns)
             /\ IsEmptyDict(response.body.preferred_topics)
             /\ IsEmptyDict(response.body.communication_style)

\* C19 amended: for a user with no conversations the summary is the literal
\* "No recent conversations found."; in the context mood_patterns and
\* communication_style are empty dicts, common_concerns and preferred_topics
\* are empty lists, and medication_patterns is the dict of its two counts,
\* both 0; neither query fails.
C19_EmptyHistory ==
    /\ (response.op = "get_conversation_summary" /\ UserConvs(response.user_id) = {})
          => response.status_code = 200 /\ response.body = NoRecentConversations
    /\ (response.op = "get_important_context" /\ UserConvs(response.user_id) = {})
          => /\ response.status_code = 200
             /\ IsEmptyDict(response.body.mood_patterns)
             /\ IsEmptyDict(response.body.communication_style)
             /\ IsEmptyList(response.body.common_concerns)
             /\ IsEmptyList(response.body.preferred_topics)
             /\ response.body.medication_patterns.py = "dict"
             /\ response.body.medication_patterns.keys
                   = {"medication_discussions", "recent_medication_concerns"}
             /\ response.body.medication_patterns.items.medication_discussions = 0
             /\ response.body.medication_patterns.items.recent_medication_concerns = 0

\* The context of a user without conversations has been returned while
\* another user has conversations.
C19_Witness ==
    /\ response.op = "get_important_context"
    /\ UserConvs(response.user_id) = {}
    /\ conversations # <<>>
    /\ IsEmptyDict(response.body.mood_patterns)
    /\ IsEmptyList(response.body.common_concerns)

\* C20: a summary over a window that holds conversations of the user has
\* exactly one section per distinct calendar day of those conversations, and
\* the section of a day is made of exactly the user's conversations of that
\* day in the window, however many there are.
C20_SummaryBuckets ==
    response.op = "get_conversation_summary" =>
        LET W == {i \in UserConvs(response.user_id) :
                    conversations[i].timestamp
                        >= response.t - response.days * TicksPerDay}
            days == {DateOf(conversations[i].timestamp) : i \in W}
        IN  W # {} =>
              /\ response.body # NoRecentConversations
              /\ Len(response.body.sections) = Cardinality(days)
              /\ {response.body.sections[k].date : k \in 1..Len(response.body.sections)}
                    = days
              /\ \A k \in 1..Len(response.body.sections) :
                    LET b == response.body.sections[k].bucket
                        D == {i \in W : DateOf(conversations[i].timestamp)
                                           = response.body.sections[k].date}
                    IN  Len(b) = Cardinality(D) /\ {b[j] : j \in 1..Len(b)} = D

\* keyword occurs in message when the case of the letters A..Z is ignored.
OccursIgnoringCase(message, keyword) ==
    \E i \in 1..(Len(message) - Len(keyword) + 1) :
        \A j \in 1..Len(keyword) :
            LowerChar(SubSeq(message, i + j - 1, i + j - 1)) = SubSeq(keyword, j, j)

C22_ConversationsImmutable ==
    [][/\ Len(conversations') >= Len(conversations)
       /\ \A i \in 1..Len(conversations) : conversations'[i] = conversations[i]]_vars

\* A user has two conversations, the alert generator has created an alert
\* from them, and the context has been asked for.
C22_Witness ==
    /\ \E i, j \in 1..Len(conversations) :
          i < j /\ conversations[i].user_id = conversations[j].user_id
    /\ alerts # <<>>
    /\ response.op = "get_important_context"

C24_UnknownIdNotFound ==
    (response.op = "complete_reminder" /\ response.reminder_id \notin 1..Len(reminders))
       => response.status_code = 404

\* The user ids a pending query can be asked with: none, 0, or a user.
QueryIds == {None} \cup {Some(u) : u \in 0..MaxUsers}

\* C25: a reminder that is completed stays completed by every step and is
\* in no result of get_pending_reminders afterwards, whatever user id is
\* asked; an alert that is resolved stays resolved and is in no result of
\* get_unresolved_alerts; and every new answer of the two pending queries
\* lists open rows only.
C25_CompletionPermanent ==
    [][/\ \A r \in 1..Len(reminders) :
            reminders[r].completed
              => /\ reminders'[r].completed
                 /\ \A q \in QueryIds : r \notin GetPendingReminders(reminders', q, now')
       /\ \A a \in 1..Len(alerts) :
            alerts[a].resolved
              => /\ alerts'[a].resolved
                 /\ \A u \in 0..MaxUsers :
                       a \notin {x.id : x \in GetUnresolvedAlerts(alerts', u)}
       /\ \A u \in 0..MaxUsers :
            (response'.op = "get_pending_reminders" /\ ApiGetPendingReminders(u))
              => \A r \in response'.body : ~reminders'[r].completed
       /\ \A u \in 0..MaxUsers :
            (response'.op = "get_caregiver_alerts" /\ ApiGetCaregiverAlerts(u))
              => \A a \in response'.body : ~alerts'[a].resolved]_vars

\* A due reminder is completed while another is still open, an alert is
\* resolved, and the alert query has answered without it.
C25_Witness ==
    /\ \E r, o \in 1..Len(reminders) :
          /\ reminders[r].completed
          /\ reminders[r].scheduled_time <= now
          /\ ~reminders[o].completed
    /\ \E a \in 1..Len(alerts) : alerts[a].resolved
    /\ response.op = "get_caregiver_alerts"
    /\ \E a \in 1..Len(alerts) : alerts[a].resolved /\ a \notin response.body

\* C26: in every reachable state a medication log has a taken_time only if
\* its status is taken.
C26_TakenTimeOnlyIfTaken ==
    \A i \in 1..Len(logs) : logs[i].taken_time # None => logs[i].status = "taken"

\* C27: every answer of the adherence query has taken + missed <= total and
\* a rate from 0 to 100, and the rows counted in total but in neither taken
\* nor missed are exactly the selected pending and skipped rows.
C27_AdherenceBounds ==
    response.op = "get_medication_adherence" =>
        LET S == InWindow(response.user_id, response.days, response.t)
            b == response.body
        IN  /\ b.taken >= 0 /\ b.missed >= 0
            /\ b.taken + b.missed <= b.total
            /\ b.adherence_rate[2] > 0
            /\ 0 <= b.adherence_rate[1]
            /\ b.adherence_rate[1] <= 100 * b.adherence_rate[2]
            /\ b.total - b.taken - b.missed
                  = Cardinality(WithStatus(S, "pending") \cup WithStatus(S, "skipped"))

\* The query has answered for a log set that holds all four statuses.
C27_Witness ==
    /\ response.op = "get_medication_adherence"
    /\ response.body.taken > 0
    /\ response.body.missed > 0
    /\ response.body.total >= response.body.taken + response.body.missed + 2
    /\ \E i, j \in 1..Len(response.body.logs) :
          /\ response.body.logs[i].status = "pending"
          /\ response.body.logs[j].status = "skipped"

\* C28: whenever get_recent_sentiment_data returns at least one
\* conversation, the overview's average mood is computed without error and
\* is the mean of the scores of all returned conversations, zeros included.
C28_AvgMoodIsMean ==
    response.op = "show_patient_overview" =>
        LET data == GetRecentSentimentData(conversations, response.patient_id,
                                           OverviewDays, response.t)
            sum  == SumSeq([k \in 1..Len(data) |-> data[k].sentiment_score[1]])
        IN  data # <<>> =>
              /\ response.body.raised = FALSE
              /\ response.body.metric = "avg_mood"
              /\ response.body.avg_mood[1] * Len(data) = sum * response.body.avg_mood[2]

\* The scored conversations of user u, and those of them with fewer than n
\* newer (or older) ones.
Scored(u) == {i \in UserConvs(u) : conversations[i].sentiment_score # None}
MostRecent(u, n) ==
    {i \in Scored(u) :
        Cardinality({j \in Scored(u) :
                        conversations[j].timestamp > conversations[i].timestamp}) < n}
Oldest(u, n) ==
    {i \in Scored(u) :
        Cardinality({j \in Scored(u) :
                        conversations[j].timestamp < conversations[i].timestamp}) < n}

\* C29: when the context reports mood_trend "improving", the user's most
\* recent scored conversations (up to 5) have a higher sentiment, in sum
\* and so on average, than the user's oldest scored conversations (up to 5).
C29_ImprovingMeansHigher ==
    (response.op = "get_important_context"
        /\ ~IsEmptyDict(response.body.mood_patterns)
        /\ response.body.mood_patterns.items.mood_trend = "improving")
       => ScoreSum(MostRecent(response.user_id, 5)) > ScoreSum(Oldest(response.user_id, 5))

\* C30: a run of the script on a store that already holds a user, in the
\* first process or in a restarted one, creates, changes and deletes
\* nothing: every table is as it was before the run.
C30_SampleDataIdempotent ==
    [][(users # {} /\ Main)
          => UNCHANGED <<users, medications, logs, alerts, reminders,
                         conversations>>]_vars

\* A restarted process has run the script, sample data included, on a store
\* whose only user was created through the API, and the store still holds
\* that user alone.
C30_Witness ==
    /\ server.boots >= 1
    /\ server.initialized
    /\ users = {1}
====
